---- MODULE Spec2Model ----
(***************************************************************************)
(* The packing layout of crates/core/src/view/packed_view: a PackedView    *)
(* owns a parent rectangle, an ordered list of children and one Position   *)
(* (directive) per child.  push and resize run compute_sizes, the layout   *)
(* pass, and hand each child the rectangle the pass returned for it.       *)
(***************************************************************************)
EXTENDS Integers, Sequences, FiniteSets, TLC

(***************************************************************************)
(* Geometry (crate::geom).  Coordinates are i32.  Rectangle::width and     *)
(* Rectangle::height are u32: a u32 is written here as the i32 with the    *)
(* same 32 bits, so a difference d < 0 stands for the u32 value 2^32 + d   *)
(* and unsigned order is ULt.  All coordinates of the model stay far from  *)
(* 2^31, so sums of i32 never wrap.                                        *)
(***************************************************************************)
pt(x, y) == [x |-> x, y |-> y]

Rectangle(min, max) == [min |-> min, max |-> max]

NULL_RECT == Rectangle(pt(0, 0), pt(0, 0))

\* Rectangle + Rectangle: corner by corner
RectAdd(a, b) ==
  Rectangle(pt(a.min.x + b.min.x, a.min.y + b.min.y),
            pt(a.max.x + b.max.x, a.max.y + b.max.y))

\* Rectangle - Rectangle: corner by corner
RectSub(a, b) ==
  Rectangle(pt(a.min.x - b.min.x, a.min.y - b.min.y),
            pt(a.max.x - b.max.x, a.max.y - b.max.y))

\* (max.x - min.x) as u32, as the i32 of the same bits
Width(r) == r.max.x - r.min.x

\* (max.y - min.y) as u32, as the i32 of the same bits
Height(r) == r.max.y - r.min.y

\* a < b between two u32 given by their i32 bit patterns
ULt(a, b) == IF (a < 0) = (b < 0) THEN a < b ELSE b < 0

\* u32 a + b with 0 <= b: the sum leaves the u32 range
UAddOverflows(a, b) == a < 0 /\ a + b >= 0

\* i32 division, which truncates toward zero
TruncDiv(a, b) == IF a >= 0 THEN a \div b ELSE -((-a) \div b)

\* Point::lt, Point::le, Point::min: on both components
PointLt(a, b) == a.x < b.x /\ a.y < b.y

PointLe(a, b) == a.x <= b.x /\ a.y <= b.y

Min2(a, b) == IF a < b THEN a ELSE b

PointMin(a, b) == pt(Min2(a.x, b.x), Min2(a.y, b.y))

\* pt!(rect.width() as i32, rect.height() as i32)
Extent(r) == pt(Width(r), Height(r))

(***************************************************************************)
(* Directives (pack.rs).  A Vec2 of fractions is kept as the pair of       *)
(* numerators over PercentDen; Point::from(full_size * pc) truncates.      *)
(***************************************************************************)
PercentDen == 2

Fixed(w, h) == [kind |-> "Fixed", x |-> w, y |-> h]

Percent(nx, ny) == [kind |-> "Percent", x |-> nx, y |-> ny]

Fill == [kind |-> "Fill", x |-> 0, y |-> 0]

Left(h) == [kind |-> "Left", m |-> h]

Right(h) == [kind |-> "Right", m |-> h]

Center == [kind |-> "Center", m |-> 0]

Top(v) == [kind |-> "Top", m |-> v]

Bottom(v) == [kind |-> "Bottom", m |-> v]

Position(pack, margin, align, valign) ==
  [pack |-> pack, margin |-> margin, align |-> align, valign |-> valign]

squared_top_left(a) == Position(Fixed(a, a), NULL_RECT, Left(0), Top(0))

squared_top_right(a) == Position(Fixed(a, a), NULL_RECT, Right(0), Top(0))

top_left(x, y) == Position(Fixed(x, y), NULL_RECT, Left(0), Top(0))

\* top_right aligned to the left edge
top_right_AlignedLeft(x, y) == Position(Fixed(x, y), NULL_RECT, Left(0), Top(0))

top_right(x, y) == Position(Fixed(x, y), NULL_RECT, Right(0), Top(0))

filled_top_left == Position(Fill, NULL_RECT, Left(0), Top(0))

\* Point::from(full_size * pc)
PercentSize(full_size, pack) ==
  pt(TruncDiv(full_size.x * pack.x, PercentDen),
     TruncDiv(full_size.y * pack.y, PercentDen))

(***************************************************************************)
(* compute_sizes, one directive at a time.                                 *)
(***************************************************************************)
\* outer margins of a directive (mod.rs 54-61)
OuterH(align) == IF align.kind \in {"Left", "Right"} THEN align.m ELSE 0

OuterV(valign) == IF valign.kind \in {"Top", "Bottom"} THEN valign.m ELSE 0

\* outer_margin.try_into().unwrap_or(0): i32 to u32
ToU32OrZero(m) == IF m < 0 THEN 0 ELSE m

\* the six candidates before the scan: index 0 and the first availability as it is
FirstCandidates(first) ==
  LET c == [i |-> 0, r |-> first]
  IN [largest |-> c, highest |-> c, leftmost |-> c, rightmost |-> c,
      topmost |-> c, bottommost |-> c, overflow |-> FALSE]

\* one turn of the scan over the availabilities (mod.rs 70-95)
ScanOne(c, index, r, h, v) ==
  LET outter_margin == Rectangle(pt(h, v), pt(-h, -v))
      new == [i |-> index, r |-> RectAdd(r, outter_margin)]
      uh == 2 * ToU32OrZero(h)
      uv == 2 * ToU32OrZero(v)
  IN [largest    |-> IF ULt(Width(c.largest.r) + uh, Width(r)) THEN new ELSE c.largest,
      highest    |-> IF ULt(Height(c.highest.r) + uv, Height(r)) THEN new ELSE c.highest,
      leftmost   |-> IF c.leftmost.r.min.x < r.min.x + h THEN new ELSE c.leftmost,
      rightmost  |-> IF c.rightmost.r.max.x < r.max.x - h THEN new ELSE c.rightmost,
      topmost    |-> IF c.topmost.r.min.y < r.min.y + v THEN new ELSE c.topmost,
      bottommost |-> IF c.bottommost.r.max.y < r.max.y - v THEN new ELSE c.bottommost,
      overflow   |-> \/ c.overflow
                     \/ UAddOverflows(Width(c.largest.r), uh)
                     \/ UAddOverflows(Height(c.highest.r), uv)]

RECURSIVE Scan(_, _, _, _, _)
Scan(c, availabilities, k, h, v) ==
  IF k > Len(availabilities) THEN c
  ELSE Scan(ScanOne(c, k - 1, availabilities[k], h, v), availabilities, k + 1, h, v)

\* the candidates for a directive with outer margins h, v (mod.rs 63-95)
Candidates(availabilities, h, v) ==
  Scan(FirstCandidates(availabilities[1]), availabilities, 1, h, v)

\* the candidate of the horizontal alignment (mod.rs 97-101)
AlignCandidate(c, align) ==
  CASE align.kind = "Left" -> c.leftmost
    [] align.kind = "Right" -> c.rightmost
    [] OTHER -> c.largest

\* the Fixed fallback to the largest candidate (mod.rs 102-106)
RectInto(c, pack, align) ==
  LET first == AlignCandidate(c, align)
  IN IF pack.kind = "Fixed" /\ PointLt(pt(pack.x, pack.y), Extent(first.r))
     THEN c.largest ELSE first

\* the granted size, with Percent taken of the region instead of the parent
ResolveSize_PercentOfRegion(pack, region, full_size) ==
  CASE pack.kind = "Fixed" ->
         IF PointLe(pt(pack.x, pack.y), Extent(region))
         THEN pt(pack.x, pack.y)
         ELSE PointMin(pt(pack.x, pack.y), Extent(region))
    [] pack.kind = "Percent" -> PercentSize(Extent(region), pack)
    [] OTHER -> Extent(region)

\* the granted size (mod.rs 108-120)
ResolveSize(pack, region, full_size) ==
  CASE pack.kind = "Fixed" ->
         IF PointLe(pt(pack.x, pack.y), Extent(region))
         THEN pt(pack.x, pack.y)
         ELSE PointMin(pt(pack.x, pack.y), Extent(region))
    [] pack.kind = "Percent" -> PercentSize(full_size, pack)
    [] OTHER -> Extent(region)

\* a warning is logged for the directive (mod.rs 112-116)
Warns(pack, region) ==
  pack.kind = "Fixed" /\ ~PointLe(pt(pack.x, pack.y), Extent(region))

\* the corner of the child, with Right placed like Left
MinX_RightAtMin(align, region, size) ==
  CASE align.kind = "Left" -> region.min.x
    [] align.kind = "Right" -> region.min.x
    [] OTHER -> region.min.x + TruncDiv(Width(region), 2) - TruncDiv(size.x, 2)

\* the corner of the child in the region (mod.rs 122-131)
MinX(align, region, size) ==
  CASE align.kind = "Left" -> region.min.x
    [] align.kind = "Right" -> region.max.x - size.x
    [] OTHER -> region.min.x + TruncDiv(Width(region), 2) - TruncDiv(size.x, 2)

MinY(valign, region, size) ==
  CASE valign.kind = "Top" -> region.min.y
    [] valign.kind = "Bottom" -> region.max.y - size.y
    [] OTHER -> region.min.y + TruncDiv(Height(region), 2) - TruncDiv(size.y, 2)

\* the child's rectangle (mod.rs 134)
ChildRect(p, region, size) ==
  LET min_x == MinX(p.align, region, size)
      min_y == MinY(p.valign, region, size)
  IN RectSub(Rectangle(pt(min_x, min_y), pt(min_x + size.x, min_y + size.y)), p.margin)

\* what is left of the availability, with the fragments above and below a
\* vertically centred child spanning the whole width of the availability
CuttedAvailability_SpanningStrips(p, original, rect, size) ==
  LET h == OuterH(p.align)
      v == OuterV(p.valign)
      cut_h ==
        CASE p.align.kind = "Left" ->
               <<RectAdd(original, Rectangle(pt(size.x + 2 * h, 0), pt(0, 0)))>>
          [] p.align.kind = "Right" ->
               <<RectAdd(original, Rectangle(pt(0, 0), pt(-(size.x + 2 * h), 0)))>>
          [] OTHER ->
               <<Rectangle(original.min, pt(rect.min.x, original.max.y)),
                 Rectangle(pt(rect.max.x, original.min.y), original.max)>>
      cut_v ==
        CASE p.valign.kind = "Top" ->
               <<RectAdd(original, Rectangle(pt(0, size.y + 2 * v), pt(0, 0)))>>
          [] p.valign.kind = "Bottom" ->
               <<RectAdd(original, Rectangle(pt(0, 0), pt(0, -(size.y + 2 * v))))>>
          [] OTHER ->
               <<Rectangle(original.min, pt(original.max.x, rect.min.y)),
                 Rectangle(pt(original.min.x, rect.max.y), original.max)>>
  IN cut_h \o cut_v

\* what is left of the availability after the placement (mod.rs 137-154)
CuttedAvailability(p, original, rect, size) ==
  LET h == OuterH(p.align)
      v == OuterV(p.valign)
      cut_h ==
        CASE p.align.kind = "Left" ->
               <<RectAdd(original, Rectangle(pt(size.x + 2 * h, 0), pt(0, 0)))>>
          [] p.align.kind = "Right" ->
               <<RectAdd(original, Rectangle(pt(0, 0), pt(-(size.x + 2 * h), 0)))>>
          [] OTHER ->
               <<Rectangle(original.min, pt(rect.min.x, original.max.y)),
                 Rectangle(pt(rect.max.x, original.min.y), original.max)>>
      cut_v ==
        CASE p.valign.kind = "Top" ->
               <<RectAdd(original, Rectangle(pt(0, size.y + 2 * v), pt(0, 0)))>>
          [] p.valign.kind = "Bottom" ->
               <<RectAdd(original, Rectangle(pt(0, 0), pt(0, -(size.y + 2 * v))))>>
          [] OTHER ->
               <<Rectangle(pt(rect.min.x, original.min.y), pt(rect.max.x, rect.min.y)),
                 Rectangle(pt(rect.min.x, rect.max.y), pt(rect.max.x, original.max.y))>>
  IN cut_h \o cut_v

\* 0 < rect.width() && 0 < rect.height(), both u32 (mod.rs 158)
KeepsFragment(r) == Width(r) # 0 /\ Height(r) # 0

\* Vec::remove
RemoveAt(s, k) == SubSeq(s, 1, k - 1) \o SubSeq(s, k + 1, Len(s))

\* the availabilities after the placement (mod.rs 156-161)
UpdateAvailabilities(availabilities, index, cutted) ==
  RemoveAt(availabilities, index + 1) \o SelectSeq(cutted, KeepsFragment)

\* one turn of the loop over the directives, availabilities not empty (mod.rs 54-166)
Place(availabilities, p, full_size) ==
  LET c == Candidates(availabilities, OuterH(p.align), OuterV(p.valign))
      rect_into == RectInto(c, p.pack, p.align)
      size == ResolveSize(p.pack, rect_into.r, full_size)
      rect == ChildRect(p, rect_into.r, size)
      original == availabilities[rect_into.i + 1]
      cutted == CuttedAvailability(p, original, rect, size)
  IN [rect |-> rect,
      size |-> size,
      into |-> rect_into,
      candidates |-> c,
      before |-> availabilities,
      cutted |-> cutted,
      warn |-> Warns(p.pack, rect_into.r),
      overflow |-> c.overflow,
      availabilities |-> UpdateAvailabilities(availabilities, rect_into.i, cutted)]

\* The pass from directive k on.  st.sizes is the Vec the pass returns;
\* st.steps keeps, per placed directive, what the turn computed; st.end tells
\* how the loop ended: "done", "break" (mod.rs 47-50) or "panic" (an
\* arithmetic overflow in a build with overflow checks).
RECURSIVE Loop(_, _, _, _, _)
Loop(st, positions, k, full_size, checks) ==
  IF k > Len(positions) THEN st
  ELSE IF st.availabilities = <<>> THEN [st EXCEPT !.end = "break"]
  ELSE LET pl == Place(st.availabilities, positions[k], full_size)
       IN IF pl.overflow /\ checks THEN [st EXCEPT !.end = "panic"]
          ELSE Loop([sizes |-> Append(st.sizes, pl.rect),
                     steps |-> Append(st.steps, pl),
                     availabilities |-> pl.availabilities,
                     end |-> "done"],
                    positions, k + 1, full_size, checks)

\* compute_sizes (mod.rs 39-170)
compute_sizes(rect, positions, checks) ==
  Loop([sizes |-> <<>>, steps |-> <<>>, availabilities |-> <<rect>>, end |-> "done"],
       positions, 1, Extent(rect), checks)

(***************************************************************************)
(* The PackedView: its fields, and the inputs the operations are tried on. *)
(***************************************************************************)
VARIABLES
  rect,             \* self.rect
  positions,        \* self.positions
  children,         \* the rectangle each of self.children holds
  pass,             \* what the latest compute_sizes did and returned
  overflow_checks,  \* the build panics on arithmetic overflow (debug) or wraps
  mode,             \* Sketch::mode
  fingers,          \* Sketch::fingers: finger id -> length of its Vec<TouchState>
  one_finger,       \* length of Sketch::one_finger
  one_finger_id,    \* Sketch::one_finger_id
  drawing,          \* Sketch::drawing
  down              \* the fingers on the screen (the device's side)

sketch_vars == <<mode, fingers, one_finger, one_finger_id, drawing, down>>

vars == <<rect, positions, children, pass, overflow_checks, sketch_vars>>

SketchMode == {"OneFinger", "Fast", "Full"}

\* the fields Sketch::new sets (sketch/mod.rs 217-233), for a given mode
SketchFields(m) ==
  /\ mode = m
  /\ fingers = <<>>
  /\ one_finger = 0
  /\ one_finger_id = -1
  /\ drawing = FALSE
  /\ down = {}

\* Sketch::new (sketch/mod.rs 184-234)
SketchNew == SketchFields("OneFinger")

MaxChildren == 2

\* an inner margin that shrinks a rectangle by m on every edge
Shrink(m) == Rectangle(pt(-m, -m), pt(m, m))

ParentRects ==
  {Rectangle(pt(0, 0), pt(4, 4)), Rectangle(pt(1, 1), pt(7, 3))}

Packs == {Fixed(2, 2), Fixed(5, 1), Percent(1, 2), Percent(3, 1), Fill}

Margins == {NULL_RECT, Shrink(1)}

Aligns == {Left(0), Right(1), Center}

VAligns == {Top(0), Bottom(1), Center}

Directives ==
  {Position(p, m, a, v) : p \in Packs, m \in Margins, a \in Aligns, v \in VAligns}

\* PackedView::new (mod.rs 19-28): no child, no pass yet
NoPass == [sizes |-> <<>>, steps |-> <<>>, availabilities |-> <<>>, end |-> "none"]

new(rects) ==
  /\ rect \in rects
  /\ positions = <<>>
  /\ children = <<>>
  /\ pass = NoPass
  /\ overflow_checks \in BOOLEAN
  /\ SketchNew

\* the loop of resize over the returned sizes (mod.rs 191-193)
ResizeChildren(cs, sizes) ==
  [i \in 1..Len(cs) |-> IF i <= Len(sizes) THEN sizes[i] ELSE cs[i]]

\* resize, dropping the directives the pass returned no rectangle for
resize_DropsStarved(r, ps, cs) ==
  LET sizes == compute_sizes(r, ps, overflow_checks)
  IN /\ rect' = r
     /\ positions' = SubSeq(ps, 1, Len(sizes.sizes))
     /\ pass' = sizes
     /\ children' = IF sizes.end = "panic" THEN cs ELSE ResizeChildren(cs, sizes.sizes)
     /\ UNCHANGED <<overflow_checks, sketch_vars>>

\* View::resize for PackedView (mod.rs 186-194) on the lists ps, cs
resize(r, ps, cs) ==
  LET sizes == compute_sizes(r, ps, overflow_checks)
  IN /\ rect' = r
     /\ positions' = ps
     /\ pass' = sizes
     /\ children' = IF sizes.end = "panic" THEN cs ELSE ResizeChildren(cs, sizes.sizes)
     /\ UNCHANGED <<overflow_checks, sketch_vars>>

\* push that stores the directive without the child
push_PositionOnly(position) ==
  /\ pass.end # "panic"
  /\ resize(rect, Append(positions, position), children)

\* PackedView::push (mod.rs 30-37); the child is built on a null rectangle
\* (top_bar.rs 38)
push(position) ==
  /\ pass.end # "panic"
  /\ resize(rect, Append(positions, position), Append(children, NULL_RECT))

Push ==
  /\ Len(positions) < MaxChildren
  /\ \E position \in Directives : push(position)

Resize ==
  /\ pass.end # "panic"
  /\ \E r \in ParentRects : resize(r, positions, children)

Init == new(ParentRects)

Next == Push \/ Resize

Spec == Init /\ [][Next]_vars

(***************************************************************************)
(* Docked fixed-size children: Fixed, Left or Right, Top or Bottom, no     *)
(* margin.                                                                 *)
(***************************************************************************)
MaxDocked == 3

DockSides == {2, 4}

DockedRects == {Rectangle(pt(0, 0), pt(4, 4)), Rectangle(pt(0, 0), pt(6, 4))}

DockedDirectives ==
  {Position(Fixed(w, h), NULL_RECT, a, v) :
     w \in DockSides, h \in DockSides, a \in {Left(0), Right(0)}, v \in {Top(0), Bottom(0)}}

PushDocked ==
  /\ Len(positions) < MaxDocked
  /\ \E position \in DockedDirectives : push(position)

ResizeDocked ==
  /\ pass.end # "panic"
  /\ \E r \in DockedRects : resize(r, positions, children)

InitDocked == new(DockedRects)

NextDocked == PushDocked \/ ResizeDocked

SpecDocked == InitDocked /\ [][NextDocked]_vars

(***************************************************************************)
(* Percent children among Fixed and Fill siblings, no inner margin.        *)
(***************************************************************************)
PercentRects == {Rectangle(pt(0, 0), pt(100, 20)), Rectangle(pt(1, 1), pt(8, 4))}

PercentDirectives ==
  {Position(p, NULL_RECT, a, v) :
     p \in {Percent(1, 2), Percent(3, 1), Fixed(2, 2), Fill},
     a \in {Left(0), Right(0), Center},
     v \in {Top(0), Bottom(1)}}

PushPercent ==
  /\ Len(positions) < MaxChildren
  /\ \E position \in PercentDirectives : push(position)

ResizePercent ==
  /\ pass.end # "panic"
  /\ \E r \in PercentRects : resize(r, positions, children)

InitPercent == new(PercentRects)

NextPercent == PushPercent \/ ResizePercent

SpecPercent == InitPercent /\ [][NextPercent]_vars

(***************************************************************************)
(* A bar: children docked left and right at the bar's height, and a Fill   *)
(* (the constructors of pack.rs, used as top_bar.rs uses them).            *)
(***************************************************************************)
MaxStrip == 3

StripSides == {2, 20}

StripRects == {Rectangle(pt(0, 0), pt(100, 20)), Rectangle(pt(0, 0), pt(6, 2))}

PushStrip(position) ==
  /\ Len(positions) < MaxStrip
  /\ push(position)

PushStripLeft == \E a \in StripSides : PushStrip(top_left(a, Height(rect)))

PushStripRight == \E b \in StripSides : PushStrip(top_right(b, Height(rect)))

PushStripFill == PushStrip(filled_top_left)

ResizeStrip ==
  /\ pass.end # "panic"
  /\ \E r \in StripRects : resize(r, positions, children)

InitStrip == new(StripRects)

NextStrip == PushStripLeft \/ PushStripRight \/ PushStripFill \/ ResizeStrip

SpecStrip == InitStrip /\ [][NextStrip]_vars

(***************************************************************************)
(* Properties of the layout pass.                                          *)
(***************************************************************************)
\* compute_sizes returned (it did not panic)
Returned == pass.end \in {"done", "break"}

NonDegenerate(r) == r.min.x < r.max.x /\ r.min.y < r.max.y

ZeroArea(r) ==
  /\ r.min.x <= r.max.x
  /\ r.min.y <= r.max.y
  /\ (r.min.x = r.max.x \/ r.min.y = r.max.y)

\* a and b share interior area
Overlap(a, b) ==
  /\ NonDegenerate(a)
  /\ NonDegenerate(b)
  /\ a.min.x < b.max.x
  /\ b.min.x < a.max.x
  /\ a.min.y < b.max.y
  /\ b.min.y < a.max.y

\* a lies inside b
Inside(a, b) ==
  /\ b.min.x <= a.min.x
  /\ a.max.x <= b.max.x
  /\ b.min.y <= a.min.y
  /\ a.max.y <= b.max.y

Abs(n) == IF n < 0 THEN -n ELSE n

\* the parent grown, on every edge, by the directive's outer margin on that
\* axis and by its inner margin on that edge
GrownParent(p) ==
  LET h == Abs(OuterH(p.align))
      v == Abs(OuterV(p.valign))
  IN Rectangle(pt(rect.min.x - h - Abs(p.margin.min.x), rect.min.y - v - Abs(p.margin.min.y)),
               pt(rect.max.x + h + Abs(p.margin.max.x), rect.max.y + v + Abs(p.margin.max.y)))

ZeroMargins(p) ==
  /\ p.margin = NULL_RECT
  /\ OuterH(p.align) = 0
  /\ OuterV(p.valign) = 0

\* the availability directive k was placed in, contracted by the outer
\* margins of the directive
ContractedRegion(k) ==
  LET h == OuterH(positions[k].align)
      v == OuterV(positions[k].valign)
      step == pass.steps[k]
  IN RectAdd(step.before[step.into.i + 1], Rectangle(pt(h, v), pt(-h, -v)))

\* C1: a pass that returns gives one rectangle per directive, in the order
\* of the directives, also when the availabilities run out before the last
\* directive.
C1_OnePerDirective == Returned => Len(pass.sizes) = Len(positions)

\* C2: the rectangles of one pass over docked Fixed directives without
\* margins are pairwise disjoint.
C2_DockedDisjoint ==
  (Returned /\ \A k \in 1..Len(positions) : positions[k] \in DockedDirectives) =>
    \A i, j \in 1..Len(pass.sizes) : i < j => ~Overlap(pass.sizes[i], pass.sizes[j])

\* C3: every non-degenerate rectangle of a pass lies inside the parent grown
\* by the margins of its directive; without margins, inside the parent.
C3_InsideParent ==
  \A k \in 1..Len(pass.sizes) :
    NonDegenerate(pass.sizes[k]) => Inside(pass.sizes[k], GrownParent(positions[k]))

\* C4: the directive that finds no availability gets a zero-area rectangle,
\* and every directive after it gets a rectangle too.
C4_StarvedGetsZeroArea ==
  pass.end = "break" =>
    LET starved == Len(pass.sizes) + 1
    IN /\ starved \in DOMAIN pass.sizes
       /\ ZeroArea(pass.sizes[starved])
       /\ \A k \in starved..Len(positions) : k \in DOMAIN pass.sizes

\* C5: a Fixed(w, h) directive is granted (w, h) when (w, h) fits the
\* selected availability contracted by the outer margins, and else the
\* smaller of the two on each axis.
C5_FixedClamped ==
  \A k \in 1..Len(pass.sizes) :
    positions[k].pack.kind = "Fixed" =>
      LET want == pt(positions[k].pack.x, positions[k].pack.y)
          have == Extent(ContractedRegion(k))
      IN pass.steps[k].size = IF want.x <= have.x /\ want.y <= have.y
                              THEN want
                              ELSE pt(Min2(want.x, have.x), Min2(want.y, have.y))

\* C6: a placed Percent(fx, fy) directive has the size (parent width * fx,
\* parent height * fy), whatever was placed before it.
C6_PercentOfParent ==
  \A k \in 1..Len(pass.sizes) :
    positions[k].pack.kind = "Percent" =>
      LET want == pt((Width(rect) * positions[k].pack.x) \div PercentDen,
                     (Height(rect) * positions[k].pack.y) \div PercentDen)
      IN /\ pass.steps[k].size = want
         /\ positions[k].margin = NULL_RECT => Extent(pass.sizes[k]) = want

\* two halves, Left then Right, in a parent of width 100: 50 each
C6_Witness ==
  /\ Width(rect) = 100
  /\ Len(positions) = 2
  /\ positions[1] = Position(Percent(1, 2), NULL_RECT, Left(0), Top(0))
  /\ positions[2] = Position(Percent(1, 2), NULL_RECT, Right(0), Top(0))
  /\ Len(pass.sizes) = 2
  /\ Width(pass.sizes[1]) = 50
  /\ Width(pass.sizes[2]) = 50

\* C7: in the bar (0,0)-(W,H), Fixed(a,H) Left/Top, Fixed(b,H) Right/Top and
\* Fill Left/Top with a + b < W get (0,0)-(a,H), (W-b,0)-(W,H) and
\* (a,0)-(W-b,H).
C7_BarLayout ==
  LET W == rect.max.x
      H == rect.max.y
      a == positions[1].pack.x
      b == positions[2].pack.x
  IN (/\ rect.min = pt(0, 0)
      /\ Len(positions) = 3
      /\ positions = <<top_left(a, H), top_right(b, H), filled_top_left>>
      /\ a + b < W) =>
       pass.sizes = <<Rectangle(pt(0, 0), pt(a, H)),
                      Rectangle(pt(W - b, 0), pt(W, H)),
                      Rectangle(pt(a, 0), pt(W - b, H))>>

\* the bar of width 100 and height 20 with a = b = 20
C7_Witness ==
  /\ rect = Rectangle(pt(0, 0), pt(100, 20))
  /\ positions = <<top_left(20, 20), top_right(20, 20), filled_top_left>>
  /\ pass.sizes = <<Rectangle(pt(0, 0), pt(20, 20)),
                    Rectangle(pt(80, 0), pt(100, 20)),
                    Rectangle(pt(20, 0), pt(80, 20))>>

\* C9: no rectangle of a pass has max.x < min.x or max.y < min.y.
C9_NoNegativeExtent ==
  \A k \in 1..Len(pass.sizes) :
    pass.sizes[k].min.x <= pass.sizes[k].max.x /\ pass.sizes[k].min.y <= pass.sizes[k].max.y

\* C10: when push or resize has returned, child i holds the rectangle the
\* latest pass gave for directive i.
C10_ChildrenHoldLatest ==
  Returned =>
    \A i \in 1..Len(children) : i \in DOMAIN pass.sizes /\ children[i] = pass.sizes[i]

\* a warn! was logged for directive k in the latest pass: the only warn! of
\* the pass is the one of a clamped Fixed (mod.rs 112-116); the directive that
\* finds no availability logs a debug! (mod.rs 48)
Warned(k) == k <= Len(pass.steps) /\ pass.steps[k].warn

\* directive k was reached with no availability left
Starved(k) == pass.end = "break" /\ k = Len(pass.sizes) + 1

\* C11: a warning is logged for exactly the Fixed directives granted another
\* size than the requested one and the directive that found no availability.
C11_WarnsExactly ==
  Returned =>
    \A k \in 1..Len(positions) :
      Warned(k) <=>
        \/ Starved(k)
        \/ /\ k <= Len(pass.steps)
           /\ positions[k].pack.kind = "Fixed"
           /\ pass.steps[k].size # pt(positions[k].pack.x, positions[k].pack.y)

\* C12: a step that adds no child (resize, and the pass it runs) leaves the
\* directive list as it was; a step that adds a child (push) appends one
\* directive and leaves the earlier ones as they were.
C12_PassKeepsDirectives ==
  [][/\ Len(children') = Len(children) => positions' = positions
     /\ Len(children') # Len(children) =>
          /\ Len(positions') = Len(positions) + 1
          /\ SubSeq(positions', 1, Len(positions)) = positions]_vars

\* a bar was resized after its first child was pushed: the directive still
\* has the height of the bar it was pushed in, the child has the new rectangle
C12_Witness ==
  /\ rect = Rectangle(pt(0, 0), pt(6, 2))
  /\ Len(positions) = 2
  /\ positions[1] = top_left(2, 20)
  /\ positions[2] = top_right(2, 20)
  /\ pass.sizes = <<Rectangle(pt(0, 0), pt(2, 2)), Rectangle(pt(4, 0), pt(6, 2))>>
  /\ children = pass.sizes

(***************************************************************************)
(* TopBar (top_bar.rs): a PackedView of six children, built by six pushes  *)
(* and resized by six update_position and one resize.  The calls of one    *)
(* handler are chained on a record of the PackedView's fields; a pass that *)
(* panics ends the chain.  TopBar::rect is assigned the same rectangle as  *)
(* the PackedView's at the end of new and resize and is not kept apart.    *)
(***************************************************************************)
View(r, ps, cs, p) == [rect |-> r, positions |-> ps, children |-> cs, pass |-> p]

\* View::resize for PackedView (mod.rs 186-194), as a value
Resized(v, r, checks) ==
  IF v.pass.end = "panic" THEN v
  ELSE LET sizes == compute_sizes(r, v.positions, checks)
       IN View(r, v.positions,
               IF sizes.end = "panic" THEN v.children
               ELSE ResizeChildren(v.children, sizes.sizes),
               sizes)

\* PackedView::push (mod.rs 30-37), as a value
Pushed(v, position, checks) ==
  IF v.pass.end = "panic" THEN v
  ELSE Resized(View(v.rect, Append(v.positions, position),
                    Append(v.children, NULL_RECT), v.pass),
               v.rect, checks)

\* PackedView::update_position(index, position): the directive at index is
\* replaced and the layout is computed again for the same rectangle
update_position(v, index, position, checks) ==
  IF v.pass.end = "panic" THEN v
  ELSE Resized(View(v.rect, [v.positions EXCEPT ![index + 1] = position],
                    v.children, v.pass),
               v.rect, checks)

SEARCH == 0

MENU == 1

BATTERY == 2

LIGHT == 3

CLOCK == 4

TITLE == 5

\* one call on the PackedView
Call(v, c, checks) ==
  CASE c.op = "push" -> Pushed(v, c.position, checks)
    [] c.op = "update_position" -> update_position(v, c.index, c.position, checks)
    [] c.op = "resize" -> Resized(v, c.rect, checks)

\* the calls of a handler, one after the other, each on the result of the last
RECURSIVE Calls(_, _, _, _)
Calls(v, cs, i, checks) ==
  IF i > Len(cs) THEN v
  ELSE CHOOSE w \in {Calls(x, cs, i + 1, checks) : x \in {Call(v, cs[i], checks)}} : TRUE

\* the six directives of a bar of height side with a clock of width clock_width
BarPositions(side, clock_width) ==
  <<squared_top_left(side), squared_top_right(side), squared_top_right(side),
    squared_top_right(side), top_right(clock_width, side), filled_top_left>>

\* TopBar::new (top_bar.rs 29-64)
TopBarNew(r, clock_width, checks) ==
  LET side == Height(r)
  IN Calls(View(r, <<>>, <<>>, NoPass),
           <<[op |-> "push", position |-> squared_top_left(side)],
             [op |-> "push", position |-> squared_top_right(side)],
             [op |-> "push", position |-> squared_top_right(side)],
             [op |-> "push", position |-> squared_top_right(side)],
             [op |-> "push", position |-> top_right(clock_width, side)],
             [op |-> "push", position |-> filled_top_left]>>,
           1, checks)

\* TopBar::resize (top_bar.rs 119-131)
TopBarResized(v, r, clock_width, checks) ==
  LET side == Height(r)
  IN Calls(v,
           <<[op |-> "update_position", index |-> SEARCH,
              position |-> squared_top_left(side)],
             [op |-> "update_position", index |-> MENU,
              position |-> squared_top_right(side)],
             [op |-> "update_position", index |-> BATTERY,
              position |-> squared_top_right(side)],
             [op |-> "update_position", index |-> LIGHT,
              position |-> squared_top_right(side)],
             [op |-> "update_position", index |-> CLOCK,
              position |-> top_right(clock_width, side)],
             [op |-> "update_position", index |-> TITLE,
              position |-> filled_top_left],
             [op |-> "resize", rect |-> r]>>,
           1, checks)

BarRects ==
  {Rectangle(pt(0, 0), pt(w, s)) : w \in {12, 100, 200}, s \in {2, 20}}
    \cup {Rectangle(pt(3, 5), pt(103, 25))}

\* Clock::compute_width(context)
ClockWidths == {4, 30}

Holds(v) ==
  /\ rect = v.rect
  /\ positions = v.positions
  /\ children = v.children
  /\ pass = v.pass

InitTopBar ==
  /\ overflow_checks \in BOOLEAN
  /\ SketchNew
  /\ \E r \in BarRects, clock_width \in ClockWidths :
       \E v \in {TopBarNew(r, clock_width, overflow_checks)} : Holds(v)

TopBarResize ==
  /\ pass.end # "panic"
  /\ \E r \in BarRects, clock_width \in ClockWidths :
       \E v \in {TopBarResized(View(rect, positions, children, pass), r, clock_width,
                               overflow_checks)} :
          /\ rect' = v.rect
          /\ positions' = v.positions
          /\ children' = v.children
          /\ pass' = v.pass
  /\ UNCHANGED <<overflow_checks, sketch_vars>>

NextTopBar == TopBarResize

SpecTopBar == InitTopBar /\ [][NextTopBar]_vars

\* C13: after TopBar::new and after every TopBar::resize the six directives
\* are the ones built from the bar's height, in the order of the children,
\* and the six children hold the layout the pass computes for them in the
\* bar's rectangle.
C13_BarChildrenHoldLayout ==
  Returned =>
    /\ Len(positions) = 6
    /\ Len(children) = 6
    /\ positions = BarPositions(Height(rect), positions[CLOCK + 1].pack.x)
    /\ Len(pass.sizes) = 6
    /\ children = pass.sizes

\* the Fixed fallback of mod.rs 102-106 replaced the alignment's candidate
FellBack(k) ==
  /\ positions[k].pack.kind = "Fixed"
  /\ PointLt(pt(positions[k].pack.x, positions[k].pack.y),
             Extent(AlignCandidate(pass.steps[k].candidates, positions[k].align).r))

\* the availability directive k was placed in, as stored before the placement
Selected(k) == pass.steps[k].before[pass.steps[k].into.i + 1]

\* C14: a Left-aligned directive without Fixed fallback is placed in an
\* availability whose min.x is minimal over the availabilities of its turn.
C14_LeftPicksLeftmost ==
  Returned =>
    \A k \in 1..Len(pass.steps) :
      (positions[k].align.kind = "Left" /\ ~FellBack(k)) =>
        \A j \in 1..Len(pass.steps[k].before) :
          Selected(k).min.x <= pass.steps[k].before[j].min.x

\* the region of the alignment's candidate is smaller than the requested
\* Fixed size on at least one axis
TooSmall(k) ==
  LET region == AlignCandidate(pass.steps[k].candidates, positions[k].align).r
  IN \/ Width(region) < positions[k].pack.x
     \/ Height(region) < positions[k].pack.y

\* C15: a Fixed directive is placed in the largest candidate when the region
\* of its alignment's candidate is smaller than the requested size on some
\* axis, and in its alignment's candidate otherwise.
C15_FallbackWhenTooSmall ==
  Returned =>
    \A k \in 1..Len(pass.steps) :
      positions[k].pack.kind = "Fixed" =>
        pass.steps[k].into =
          IF TooSmall(k) THEN pass.steps[k].candidates.largest
          ELSE AlignCandidate(pass.steps[k].candidates, positions[k].align)

\* the space directive k consumed: its granted size at its position, with
\* its outer margins around it
Consumed(k) ==
  LET p == positions[k]
      step == pass.steps[k]
      min_x == MinX(p.align, step.into.r, step.size)
      min_y == MinY(p.valign, step.into.r, step.size)
      h == OuterH(p.align)
      v == OuterV(p.valign)
  IN Rectangle(pt(min_x - h, min_y - v),
               pt(min_x + step.size.x + h, min_y + step.size.y + v))

\* C16: after every placement of a pass the stored availabilities are
\* pairwise disjoint and none overlaps the space consumed by a directive
\* placed so far.
C16_AvailabilitiesDisjoint ==
  Returned =>
    \A k \in 1..Len(pass.steps) :
      LET stored == pass.steps[k].availabilities
      IN /\ \A i, j \in 1..Len(stored) : i < j => ~Overlap(stored[i], stored[j])
         /\ \A i \in 1..Len(stored), j \in 1..k : ~Overlap(stored[i], Consumed(j))

\* C17: every rectangle stored in the availability list during a pass has
\* min.x < max.x and min.y < max.y and lies inside the parent.
C17_StoredFragmentsProper ==
  Returned =>
    \A k \in 1..Len(pass.steps) :
      \A i \in 1..Len(pass.steps[k].availabilities) :
        /\ NonDegenerate(pass.steps[k].availabilities[i])
        /\ Inside(pass.steps[k].availabilities[i], rect)

\* the directives with their inner margins removed
RECURSIVE WithoutMargins(_)
WithoutMargins(ps) ==
  IF ps = <<>> THEN <<>>
  ELSE <<[Head(ps) EXCEPT !.margin = NULL_RECT]>> \o WithoutMargins(Tail(ps))

\* C18: the availability list after each placement is the one of the pass
\* over the same directives without their inner margins.
C18_InnerMarginNotAccounted ==
  Returned =>
    LET bare == compute_sizes(rect, WithoutMargins(positions), overflow_checks)
    IN /\ Len(bare.steps) = Len(pass.steps)
       /\ \A k \in 1..Len(pass.steps) :
            pass.steps[k].availabilities = bare.steps[k].availabilities

\* C19: the region every directive is resolved and positioned in is the
\* selected availability contracted by the directive's outer margins, h on
\* the left and right edges and v on the top and bottom edges.
C19_RegionContracted ==
  Returned =>
    \A k \in 1..Len(pass.steps) : pass.steps[k].into.r = ContractedRegion(k)

(***************************************************************************)
(* Right-aligned children with and without an outer margin, no inner       *)
(* margins, sizes that fit the parent.                                     *)
(***************************************************************************)
RightDirectives ==
  {Position(p, NULL_RECT, a, v) :
     p \in {Fixed(1, 1), Fixed(2, 2), Fill},
     a \in {Right(0), Right(1), Left(0)},
     v \in {Top(0), Bottom(0)}}

PushRight ==
  /\ Len(positions) < MaxChildren
  /\ \E position \in RightDirectives : push(position)

ResizeRight ==
  /\ pass.end # "panic"
  /\ \E r \in ParentRects : resize(r, positions, children)

InitRight == new(ParentRects)

NextRight == PushRight \/ ResizeRight

SpecRight == InitRight /\ [][NextRight]_vars

\* C20: a Right-aligned directive without Fixed fallback is placed in an
\* availability whose max.x is maximal over the availabilities of its turn,
\* whatever its outer margin.
C20_RightPicksRightmost ==
  Returned =>
    \A k \in 1..Len(pass.steps) :
      (positions[k].align.kind = "Right" /\ ~FellBack(k)) =>
        \A j \in 1..Len(pass.steps[k].before) :
          pass.steps[k].before[j].max.x <= Selected(k).max.x

\* the availability the largest candidate of turn k names
LargestOf(k) == pass.steps[k].before[pass.steps[k].candidates.largest.i + 1]

\* C21: the largest candidate of every turn is an availability of maximal
\* width, and the one of lowest index among those, whatever the outer margin
\* of the directive.
C21_LargestIsWidest ==
  Returned =>
    \A k \in 1..Len(pass.steps) :
      \A j \in 1..Len(pass.steps[k].before) :
        /\ Width(pass.steps[k].before[j]) <= Width(LargestOf(k))
        /\ Width(pass.steps[k].before[j]) = Width(LargestOf(k)) =>
             pass.steps[k].candidates.largest.i + 1 <= j

\* C22: a Fill directive aligned Left or Right and Top or Bottom is granted
\* the whole extent of the selected availability contracted by its outer
\* margins, and its placement removes that availability and stores no
\* fragment of it.
C22_FillConsumesRegion ==
  Returned =>
    \A k \in 1..Len(pass.steps) :
      (/\ positions[k].pack.kind = "Fill"
       /\ positions[k].align.kind \in {"Left", "Right"}
       /\ positions[k].valign.kind \in {"Top", "Bottom"}) =>
        /\ pass.steps[k].size = Extent(ContractedRegion(k))
        /\ pass.steps[k].availabilities =
             RemoveAt(pass.steps[k].before, pass.steps[k].into.i + 1)

(***************************************************************************)
(* Centred children: sizes that fit and sizes that do not, in parents of   *)
(* odd and even extent, no inner margins.                                  *)
(***************************************************************************)
CenterRects == {Rectangle(pt(0, 0), pt(5, 3)), Rectangle(pt(1, 1), pt(7, 5))}

CenterDirectives ==
  {Position(p, NULL_RECT, a, v) :
     p \in {Fixed(2, 1), Fixed(3, 2), Percent(1, 1), Percent(3, 1), Fill},
     a \in {Center, Left(0)},
     v \in {Center, Top(0)}}

PushCenter ==
  /\ Len(positions) < MaxChildren
  /\ \E position \in CenterDirectives : push(position)

ResizeCenter ==
  /\ pass.end # "panic"
  /\ \E r \in CenterRects : resize(r, positions, children)

InitCenter == new(CenterRects)

NextCenter == PushCenter \/ ResizeCenter

SpecCenter == InitCenter /\ [][NextCenter]_vars

Area(r) == Width(r) * Height(r)

RECURSIVE SumArea(_)
SumArea(rs) == IF rs = <<>> THEN 0 ELSE Area(Head(rs)) + SumArea(Tail(rs))

\* directive k is centred on both axes, has no inner margin, and its granted
\* size fits the region it was placed in
CentredAndFits(k) ==
  /\ positions[k].align.kind = "Center"
  /\ positions[k].valign.kind = "Center"
  /\ positions[k].margin = NULL_RECT
  /\ PointLe(pt(0, 0), pass.steps[k].size)
  /\ PointLe(pass.steps[k].size, Extent(pass.steps[k].into.r))

\* the fragments turn k stored (mod.rs 157-161)
StoredFragments(k) == SelectSeq(pass.steps[k].cutted, KeepsFragment)

\* C23: for a directive centred on both axes with no inner margin whose
\* granted size fits the selected region, the stored fragments have positive
\* area, are pairwise disjoint and disjoint from the child's rectangle, lie
\* inside the selected availability and, with the child, cover it exactly.
C23_CentredCutPartitions ==
  Returned =>
    \A k \in 1..Len(pass.steps) :
      CentredAndFits(k) =>
        LET stored == StoredFragments(k)
        IN /\ \A i \in 1..Len(stored) :
                /\ NonDegenerate(stored[i])
                /\ Inside(stored[i], Selected(k))
                /\ ~Overlap(stored[i], pass.steps[k].rect)
           /\ \A i, j \in 1..Len(stored) : i < j => ~Overlap(stored[i], stored[j])
           /\ Inside(pass.steps[k].rect, Selected(k))
           /\ SumArea(stored) + Area(pass.steps[k].rect) = Area(Selected(k))

\* a 2 by 1 child centred in the 5 by 3 parent, with a strip on each side
C23_Witness ==
  /\ rect = Rectangle(pt(0, 0), pt(5, 3))
  /\ positions = <<Position(Fixed(2, 1), NULL_RECT, Center, Center)>>
  /\ CentredAndFits(1)
  /\ pass.sizes = <<Rectangle(pt(1, 1), pt(3, 2))>>
  /\ Len(StoredFragments(1)) = 4

\* the six rectangles of a bar with a clock of width c: the search square at
\* the left edge, menu, battery and frontlight squares from the right edge
\* leftwards, the clock left of them, the title in the gap
BarLayout(r, c) ==
  LET s == Height(r)
      y0 == r.min.y
      y1 == r.max.y
      x0 == r.min.x
      x1 == r.max.x
  IN <<Rectangle(pt(x0, y0), pt(x0 + s, y1)),
       Rectangle(pt(x1 - s, y0), pt(x1, y1)),
       Rectangle(pt(x1 - 2 * s, y0), pt(x1 - s, y1)),
       Rectangle(pt(x1 - 3 * s, y0), pt(x1 - 2 * s, y1)),
       Rectangle(pt(x1 - 3 * s - c, y0), pt(x1 - 3 * s, y1)),
       Rectangle(pt(x0 + s, y0), pt(x1 - 3 * s - c, y1))>>

\* C24: in a bar of width W and height s with clock width c and
\* 4*s + c < W, the six children hold, in push order, the search square,
\* the menu, battery and frontlight squares, the clock slot and the title
\* gap; the six rectangles are pairwise disjoint, inside the bar, and their
\* areas add up to the bar's.
C24_TopBarLayout ==
  (/\ Returned
   /\ Len(positions) = 6
   /\ positions = BarPositions(Height(rect), positions[CLOCK + 1].pack.x)
   /\ 4 * Height(rect) + positions[CLOCK + 1].pack.x < Width(rect)) =>
     /\ pass.sizes = BarLayout(rect, positions[CLOCK + 1].pack.x)
     /\ children = pass.sizes
     /\ \A i, j \in 1..6 : i < j => ~Overlap(children[i], children[j])
     /\ \A i \in 1..6 : Inside(children[i], rect)
     /\ SumArea(children) = Area(rect)

\* the bar of width 100 and height 20 with a clock 4 wide
C24_Witness ==
  /\ rect = Rectangle(pt(0, 0), pt(100, 20))
  /\ positions = BarPositions(20, 4)
  /\ children = <<Rectangle(pt(0, 0), pt(20, 20)),
                  Rectangle(pt(80, 0), pt(100, 20)),
                  Rectangle(pt(60, 0), pt(80, 20)),
                  Rectangle(pt(40, 0), pt(60, 20)),
                  Rectangle(pt(36, 0), pt(40, 20)),
                  Rectangle(pt(20, 0), pt(36, 20))>>

\* the indices of the six candidates of a turn (mod.rs 64-69)
CandidateIndices(c) ==
  {c.largest.i, c.highest.i, c.leftmost.i, c.rightmost.i, c.topmost.i, c.bottommost.i}

\* C25: children and positions have the same length, a pass returns at most
\* that many rectangles, and every turn of a pass finds a non-empty
\* availability list and uses only indices inside it.
C25_IndicesInRange ==
  /\ Len(children) = Len(positions)
  /\ Len(pass.sizes) <= Len(children)
  /\ Len(pass.steps) = Len(pass.sizes)
  /\ \A k \in 1..Len(pass.steps) :
       /\ pass.steps[k].before # <<>>
       /\ \A i \in CandidateIndices(pass.steps[k].candidates) \cup {pass.steps[k].into.i} :
            0 <= i /\ i < Len(pass.steps[k].before)

\* two children, the second placed in the second of several availabilities
C25_Witness ==
  /\ Len(children) = 2
  /\ Len(positions) = 2
  /\ pass.end = "done"
  /\ Len(pass.sizes) = 2
  /\ Len(pass.steps[2].before) >= 2
  /\ pass.steps[2].into.i = 1

(***************************************************************************)
(* Sketch::handle_event on finger events (sketch/mod.rs 394-479).  A Vec   *)
(* of TouchState is kept by its length; the device reports Down for a      *)
(* finger that is not on the screen and Motion and Up for one that is.     *)
(***************************************************************************)
FingerIds == {0, 1, 2}

MaxTrace == 2

NoView ==
  /\ rect = NULL_RECT
  /\ positions = <<>>
  /\ children = <<>>
  /\ pass = NoPass
  /\ overflow_checks = FALSE

packed_vars == <<rect, positions, children, pass, overflow_checks>>

\* FxHashMap::insert
Insert(map, id, value) ==
  [i \in DOMAIN map \cup {id} |-> IF i = id THEN value ELSE map[i]]

\* FxHashMap::remove
Remove(map, id) == [i \in DOMAIN map \ {id} |-> map[i]]

\* the Vec the event's finger writes to (mod.rs 400-405, 444-448): "one"
\* for self.one_finger, "map" for its entry of self.fingers, "none"
TouchStates(id) ==
  CASE mode = "OneFinger" /\ id = one_finger_id -> "one"
    [] mode = "OneFinger" -> "none"
    [] id \in DOMAIN fingers -> "map"
    [] OTHER -> "none"

\* FingerStatus::Down (mod.rs 426-441)
FingerDown ==
  \E id \in FingerIds \ down :
    /\ down' = down \cup {id}
    /\ CASE mode = "OneFinger" /\ drawing ->
              UNCHANGED <<fingers, one_finger, one_finger_id>>
         [] mode = "OneFinger" ->
              /\ one_finger' = 1
              /\ one_finger_id' = id
              /\ UNCHANGED fingers
         [] OTHER ->
              /\ fingers' = Insert(fingers, id, 1)
              /\ UNCHANGED <<one_finger, one_finger_id>>
    /\ drawing' = TRUE
    /\ UNCHANGED <<mode, packed_vars>>

\* FingerStatus::Motion (mod.rs 396-425)
FingerMotion ==
  \E id \in down :
    /\ CASE drawing /\ TouchStates(id) = "one" /\ one_finger > 0 ->
              /\ one_finger < MaxTrace
              /\ one_finger' = one_finger + 1
              /\ UNCHANGED fingers
         [] drawing /\ TouchStates(id) = "map" /\ fingers[id] > 0 ->
              /\ fingers[id] < MaxTrace
              /\ fingers' = [fingers EXCEPT ![id] = @ + 1]
              /\ UNCHANGED one_finger
         [] OTHER -> UNCHANGED <<fingers, one_finger>>
    /\ UNCHANGED <<mode, one_finger_id, drawing, down, packed_vars>>

\* FingerStatus::Up (mod.rs 442-479): the finger's Vec is recorded and
\* popped until empty, then drawing is assigned
FingerUp ==
  \E id \in down :
    /\ down' = down \ {id}
    /\ one_finger' = IF TouchStates(id) = "one" THEN 0 ELSE one_finger
    /\ CASE mode = "OneFinger" /\ id = one_finger_id ->
              /\ drawing' = FALSE
              /\ UNCHANGED fingers
         [] mode = "OneFinger" -> UNCHANGED <<drawing, fingers>>
         [] OTHER ->
              /\ fingers' = Remove(fingers, id)
              /\ drawing' = (Remove(fingers, id) = <<>>)
    /\ UNCHANGED <<mode, one_finger_id, packed_vars>>

NextSketch == FingerDown \/ FingerMotion \/ FingerUp

\* the Sketch as Sketch::new builds it
InitSketch == NoView /\ SketchNew

SpecSketch == InitSketch /\ [][NextSketch]_vars

\* the Sketch in each mode handle_event distinguishes
InitSketchModes == NoView /\ \E m \in SketchMode : SketchFields(m)

SpecSketchModes == InitSketchModes /\ [][NextSketch]_vars

====
